---- MODULE Spec2Model ----
(***************************************************************************)
(* Model of test-hf-mcp.py: the interactive test runner (main), the eight  *)
(* check procedures, the acknowledgment prompt (wait_for_user), the report *)
(* (generate_test_report) and the __main__ guard.                          *)
(*                                                                         *)
(* The program is sequential; it blocks only in input().  A state of the   *)
(* model is the program blocked at one input() call, or terminated.  Each  *)
(* action is what the operator can do at that point (type a line, press    *)
(* Ctrl-C, close stdin) followed by everything the program does until it   *)
(* blocks again or exits.                                                  *)
(*                                                                         *)
(* A line of text is a sequence of one-character strings.                  *)
(***************************************************************************)
EXTENDS Integers, Sequences, FiniteSets, TLC

(***************************************************************************)
(* Bounds of the operator's input.                                         *)
(***************************************************************************)
\* largest number of blanks put before and after a word of Words
MaxPad == 1

\* the words the operator types
Words ==
    { <<>>,
      <<"y">>, <<"Y">>, <<"n">>, <<"N">>,
      <<"n", "o">>, <<"N", "o">>,
      <<"y", "e", "s">>,
      <<"m", "a", "y", "b", "e">>,
      <<"y", " ", "y">>,
      <<"\t", "y">> }

RECURSIVE Blanks(_)
Blanks(k) == IF k = 0 THEN <<>> ELSE <<" ">> \o Blanks(k - 1)

\* every line the operator may type at a question
Answers == { Blanks(l) \o w \o Blanks(r) : w \in Words, l \in 0..MaxPad, r \in 0..MaxPad }

\* the value of the history variables while no line has been read
NoInput == <<"<none>">>

(***************************************************************************)
(* str.lower() and str.strip()                                             *)
(***************************************************************************)
Whitespace == {" ", "\t", "\n", "\r"}

LowerChar(c) ==
    CASE c = "Y" -> "y"
      [] c = "N" -> "n"
      [] OTHER   -> c

Lower(s) == [j \in 1..Len(s) |-> LowerChar(s[j])]

RECURSIVE LStrip(_)
LStrip(s) == IF s # <<>> /\ Head(s) \in Whitespace THEN LStrip(Tail(s)) ELSE s

RECURSIVE RStrip(_)
RStrip(s) ==
    IF s # <<>> /\ s[Len(s)] \in Whitespace
    THEN RStrip(SubSeq(s, 1, Len(s) - 1))
    ELSE s

Strip(s) == RStrip(LStrip(s))

\* a mutation of Normalize: the answer is lowercased but not stripped
NormalizeNoStrip(s) == Lower(s)

\* input(...).lower().strip()
Normalize(s) == Strip(Lower(s))

\* response == 'y'
IsYes(s) == Normalize(s) = <<"y">>

\* a mutation of GateSaysNo: every answer other than y skips the question
GateNotYes(s) == Normalize(s) # <<"y">>

\* has_token == 'n'
GateSaysNo(s) == Normalize(s) = <<"n">>

(***************************************************************************)
(* The check list of main                                                  *)
(***************************************************************************)
tests ==
    << "Basic MCP Integration",
       "Model Search",
       "Model Information",
       "Dataset Search",
       "Text Generation Inference",
       "Spaces Search",
       "Error Handling",
       "Comprehensive Test" >>

N == Len(tests)

\* the check bound to test_inference asks a gating question first
HasGate(test_name) == test_name = "Text Generation Inference"

\* the first input() a check procedure blocks on
EntryPc(j) == IF HasGate(tests[j]) THEN "gate" ELSE "prompt"

(***************************************************************************)
(* The results dict: insertion-ordered, a sequence of entries.             *)
(***************************************************************************)
Entry(test_name, passed) == [name |-> test_name, passed |-> passed]

HasKey(d, k) == \E j \in 1..Len(d) : d[j].name = k

\* d[k] = v : a present key keeps its place and takes the new value
Put(d, k, v) ==
    IF HasKey(d, k)
    THEN [j \in 1..Len(d) |-> IF d[j].name = k THEN Entry(k, v) ELSE d[j]]
    ELSE Append(d, Entry(k, v))

Names(d) == [j \in 1..Len(d) |-> d[j].name]

RECURSIVE CountPassed(_)
\* sum(results.values())
CountPassed(d) ==
    IF d = <<>> THEN 0
    ELSE (IF Head(d).passed THEN 1 ELSE 0) + CountPassed(Tail(d))

\* f"{(passed/total)*100:.1f}" in tenths of a percent, total > 0
\* (no quotient with total <= 9 lies halfway between two tenths)
SuccessRateTenths(passed, total) == (2000 * passed + total) \div (2 * total)

VARIABLES
    pc,            \* "prompt", "gate", "ack": blocked in that input(); "exit"
    idx,           \* position in tests of the current iteration of the loop
    results,       \* the results dict of main
    total_tests,   \* locals of generate_test_report, -1 before it runs
    passed_tests,
    failed_tests,
    rate,          \* the printed success rate in tenths of a percent, -1 if none
    error,         \* the exception that left main uncaught, or "none"
    exitStatus,    \* the exit status of the process, -1 while it runs
    goodbye,       \* "Test suite interrupted. Goodbye!" was printed
    reportCalled,  \* generate_test_report was called
    interrupt,     \* where KeyboardInterrupt was raised: "none", "check", "ack"
    lastOutcome,   \* how the current check ended: "none", "returned", "raised"
    gateLine,      \* the line typed at the gate of the current check
    line,          \* the line typed at the final question of the current check
    acks,          \* number of acknowledgments given
    calls          \* the names of the check procedures invoked, in order

vars == << pc, idx, results, total_tests, passed_tests, failed_tests, rate,
           error, exitStatus, goodbye, reportCalled, interrupt, lastOutcome,
           gateLine, line, acks, calls >>

reportVars == << total_tests, passed_tests, failed_tests, rate, reportCalled >>

Init ==
    /\ pc = EntryPc(1)
    /\ idx = 1
    /\ results = <<>>
    /\ total_tests = -1
    /\ passed_tests = -1
    /\ failed_tests = -1
    /\ rate = -1
    /\ error = "none"
    /\ exitStatus = -1
    /\ goodbye = FALSE
    /\ reportCalled = FALSE
    /\ interrupt = "none"
    /\ lastOutcome = "none"
    /\ gateLine = NoInput
    /\ line = NoInput
    /\ acks = 0
    /\ calls = << tests[1] >>

(***************************************************************************)
(* generate_test_report(d) followed by the return of main and the normal   *)
(* end of the process; a ZeroDivisionError leaves main uncaught by the     *)
(* __main__ guard, which catches KeyboardInterrupt only.                   *)
(***************************************************************************)
GenerateReport(d) ==
    /\ reportCalled' = TRUE
    /\ total_tests' = Len(d)
    /\ passed_tests' = CountPassed(d)
    /\ failed_tests' = Len(d) - CountPassed(d)
    /\ IF Len(d) = 0
       THEN /\ rate' = -1
            /\ error' = "ZeroDivisionError"
            /\ exitStatus' = 1
       ELSE /\ rate' = SuccessRateTenths(CountPassed(d), Len(d))
            /\ error' = "none"
            /\ exitStatus' = 0
    /\ pc' = "exit"
    /\ UNCHANGED goodbye

\* a mutation of AfterCheck: the acknowledgment is asked after the last check too
AfterCheckAlwaysWait(d) ==
    /\ pc' = "ack"
    /\ UNCHANGED << reportVars, error, exitStatus, goodbye >>

\* the end of an iteration whose check was recorded: wait_for_user() unless
\* this is the last check, where the loop ends and the report is generated
AfterCheck(d) ==
    IF tests[idx] # tests[N]
    THEN /\ pc' = "ack"
         /\ UNCHANGED << reportVars, error, exitStatus, goodbye >>
    ELSE GenerateReport(d)

\* results[test_name] = test_func() when test_func returns v
Record(v) ==
    /\ results' = Put(results, tests[idx], v)
    /\ lastOutcome' = "returned"
    /\ AfterCheck(Put(results, tests[idx], v))
    /\ UNCHANGED << idx, interrupt, acks, calls >>

\* the operator answers the gating question of test_inference
AnswerGate(a) ==
    /\ pc = "gate"
    /\ gateLine' = a
    /\ IF GateSaysNo(a)
       THEN /\ Record(TRUE)
            /\ UNCHANGED line
       ELSE /\ pc' = "prompt"
            /\ UNCHANGED << idx, results, reportVars, error, exitStatus, goodbye,
                            interrupt, lastOutcome, line, acks, calls >>

\* the operator answers the (final) yes/no question of a check
Answer(a) ==
    /\ pc = "prompt"
    /\ line' = a
    /\ Record(IsYes(a))
    /\ UNCHANGED gateLine

\* a mutation of CheckRaises: the error is not caught and leaves main
CheckRaisesPropagates ==
    /\ pc \in {"gate", "prompt"}
    /\ lastOutcome' = "raised"
    /\ error' = "Exception"
    /\ exitStatus' = 1
    /\ pc' = "exit"
    /\ UNCHANGED << idx, results, reportVars, goodbye, interrupt, gateLine,
                    line, acks, calls >>

\* a mutation of CheckRaises: the error is reported but no outcome is recorded
CheckRaisesUnrecorded ==
    /\ pc \in {"gate", "prompt"}
    /\ lastOutcome' = "raised"
    /\ AfterCheck(results)
    /\ UNCHANGED << idx, results, interrupt, gateLine, line, acks, calls >>

\* the check procedure raises an Exception (input() raises EOFError, a print
\* fails): except Exception records False
CheckRaises ==
    /\ pc \in {"gate", "prompt"}
    /\ results' = Put(results, tests[idx], FALSE)
    /\ lastOutcome' = "raised"
    /\ AfterCheck(Put(results, tests[idx], FALSE))
    /\ UNCHANGED << idx, interrupt, gateLine, line, acks, calls >>

\* a mutation of InterruptCheck: the cancelled check is recorded as failed
InterruptCheckRecorded ==
    /\ pc \in {"gate", "prompt"}
    /\ interrupt' = "check"
    /\ results' = Put(results, tests[idx], FALSE)
    /\ GenerateReport(Put(results, tests[idx], FALSE))
    /\ UNCHANGED << idx, lastOutcome, gateLine, line, acks, calls >>

\* Ctrl-C while a check waits for input: except KeyboardInterrupt breaks out
\* of the loop and the report is generated from the results so far
InterruptCheck ==
    /\ pc \in {"gate", "prompt"}
    /\ interrupt' = "check"
    /\ GenerateReport(results)
    /\ UNCHANGED << idx, results, lastOutcome, gateLine, line, acks, calls >>

\* a mutation of Acknowledge: the same check is run again
AcknowledgeRetry ==
    /\ pc = "ack"
    /\ acks' = acks + 1
    /\ idx' = idx
    /\ calls' = Append(calls, tests[idx])
    /\ pc' = EntryPc(idx)
    /\ lastOutcome' = "none"
    /\ gateLine' = NoInput
    /\ line' = NoInput
    /\ UNCHANGED << results, reportVars, error, exitStatus, goodbye, interrupt >>

\* the operator presses Enter at "Press Enter to continue to the next test...":
\* the next iteration invokes the next check, which blocks on its first input
Acknowledge ==
    /\ pc = "ack"
    /\ acks' = acks + 1
    /\ idx' = idx + 1
    /\ calls' = Append(calls, tests[idx + 1])
    /\ pc' = EntryPc(idx + 1)
    /\ lastOutcome' = "none"
    /\ gateLine' = NoInput
    /\ line' = NoInput
    /\ UNCHANGED << results, reportVars, error, exitStatus, goodbye, interrupt >>

\* Ctrl-C in wait_for_user, which is outside the try of the loop: the
\* KeyboardInterrupt leaves main and reaches the __main__ guard
InterruptAck ==
    /\ pc = "ack"
    /\ interrupt' = "ack"
    /\ goodbye' = TRUE
    /\ exitStatus' = 0
    /\ pc' = "exit"
    /\ UNCHANGED << idx, results, reportVars, error, lastOutcome, gateLine,
                    line, acks, calls >>

\* input() of wait_for_user raises EOFError (stdin closed): nothing catches it
AckRaises ==
    /\ pc = "ack"
    /\ error' = "EOFError"
    /\ exitStatus' = 1
    /\ pc' = "exit"
    /\ UNCHANGED << idx, results, reportVars, goodbye, interrupt, lastOutcome,
                    gateLine, line, acks, calls >>

Next ==
    \/ \E a \in Answers : AnswerGate(a)
    \/ \E a \in Answers : Answer(a)
    \/ CheckRaises
    \/ InterruptCheck
    \/ Acknowledge
    \/ InterruptAck
    \/ AckRaises

Spec == Init /\ [][Next]_vars

(***************************************************************************)
(* Notions the claims are stated in                                        *)
(***************************************************************************)
\* "after trimming surrounding whitespace and lowercasing"
TrimLower(s) == Lower(Strip(s))

IsPrefix(s, t) == Len(s) <= Len(t) /\ s = SubSeq(t, 1, Len(s))

InCheck == pc \in {"gate", "prompt"}

Exited == pc = "exit"

\* the current check is the one with the gating question and the gate was answered
GateAnswered == HasGate(tests[idx]) /\ gateLine # NoInput

\* the outcome of the current check is in the ResultSet
Recorded == Len(results) >= idx

PassedSet == { j \in 1..Len(results) : results[j].passed }

\* C1 (as claimed): when the process has exited after an interrupt raised at a
\* blocking input point of the run loop (a prompt of a check or the
\* acknowledgment prompt), generate_test_report has been called.
C1_InterruptLeadsToReport ==
    (Exited /\ interrupt # "none") => reportCalled

\* C2 (as claimed): when the operator cancels while the first check waits for
\* input and the ResultSet is empty, the process prints the goodbye notice and
\* exits with status 0, with no uncaught error.
C2_EarlyCancelIsGraceful ==
    (Exited /\ interrupt = "check" /\ results = <<>>)
        => (goodbye /\ exitStatus = 0 /\ error = "none")

\* C3 (as claimed): the report never evaluates passed_tests/total_tests with
\* total_tests = 0, so no run ends in a ZeroDivisionError.
C3_NoDivisionByZero ==
    ~(reportCalled /\ total_tests = 0 /\ error = "ZeroDivisionError")

\* C4: when the procedure of a check raises an error other than cancellation,
\* the outcome false is appended under that check's name, nothing is left
\* uncaught, and the run goes on: to the acknowledgment prompt, whose
\* acknowledgment invokes the next check, or after the last check to a report
\* of all N checks and exit status 0.
C4_ErrorIsRecordedAndRunContinues ==
    [][ /\ (InCheck /\ lastOutcome' = "raised") =>
            /\ results' = Append(results, Entry(tests[idx], FALSE))
            /\ error' = "none"
            /\ IF Len(calls) < N
               THEN pc' = "ack" /\ exitStatus' = -1
               ELSE reportCalled' /\ total_tests' = N /\ exitStatus' = 0
        /\ (pc = "ack" /\ lastOutcome = "raised" /\ acks' = acks + 1) =>
            /\ calls' = Append(calls, tests[Len(calls) + 1])
            /\ pc' \in {"gate", "prompt"}
      ]_vars

\* C4 witness: the second check raised, false is recorded for it and the runner
\* waits for the acknowledgment before the third check.
C4_Witness ==
    /\ pc = "ack"
    /\ lastOutcome = "raised"
    /\ Len(calls) = 2
    /\ results[2] = Entry(tests[2], FALSE)

\* C5: when the operator cancels during a check after k checks have completed
\* (k = the checks invoked but the cancelled one), the run stops, the ResultSet
\* is left as it was, it holds the first k check names and nothing else, and
\* the report counts k checks.
C5_CancelKeepsCompletedChecks ==
    [][ (interrupt = "none" /\ interrupt' = "check") =>
            /\ results' = results
            /\ Names(results') = SubSeq(tests, 1, Len(calls) - 1)
            /\ reportCalled'
            /\ total_tests' = Len(calls) - 1
            /\ pc' = "exit"
      ]_vars

\* C5 witness: cancellation during the fourth check, three checks completed.
C5_Witness ==
    /\ interrupt = "check"
    /\ Len(calls) = 4
    /\ Len(results) = 3
    /\ total_tests = 3
    /\ passed_tests = 2

\* C6: a report reached without cancellation is a report of exactly N entries,
\* one per check name, with passed + failed = N, 0 <= passed <= N, and passed
\* the number of true outcomes.
C6_FullRunHasNEntries ==
    (reportCalled /\ interrupt = "none") =>
        /\ Len(results) = N
        /\ Names(results) = tests
        /\ total_tests = N
        /\ passed_tests + failed_tests = N
        /\ passed_tests \in 0..N
        /\ passed_tests = Cardinality(PassedSet)

\* C6 witness: a full run with 5 passed and 3 failed, reported as 62.5%.
C6_Witness ==
    /\ reportCalled
    /\ interrupt = "none"
    /\ passed_tests = 5
    /\ failed_tests = 3
    /\ rate = 625

\* C7 (as claimed): in the inference check every gate answer other than y
\* (after trimming and lowercasing) yields outcome true and the substantive
\* question is never asked.
C7_AnyNonYesGateSkips ==
    (GateAnswered /\ TrimLower(gateLine) # <<"y">>) =>
        /\ pc # "prompt"
        /\ line = NoInput
        /\ Recorded => results[idx].passed

\* C7 (amended): in the inference check a gate answer that is exactly n after
\* trimming and lowercasing yields outcome true and the substantive question
\* is never asked; after every other gate answer the substantive question is
\* asked.
C7_GateExactlyNSkips ==
    GateAnswered =>
        IF TrimLower(gateLine) = <<"n">>
        THEN /\ pc # "prompt"
             /\ line = NoInput
             /\ Recorded
             /\ results[idx] = Entry(tests[idx], TRUE)
        ELSE \/ pc = "prompt"
             \/ line # NoInput
             \/ lastOutcome = "raised"
             \/ interrupt = "check"

\* C7 witness: the gate was answered " N ", the check is recorded true and the
\* substantive question was not asked.
C7_Witness ==
    /\ GateAnswered
    /\ gateLine = <<" ", "N", " ">>
    /\ line = NoInput
    /\ Recorded
    /\ results[idx].passed

\* C8: the outcome recorded for the final yes/no question of a check is true
\* if and only if the answer, trimmed and lowercased, is exactly y.
C8_OutcomeIffY ==
    (line # NoInput /\ Recorded) =>
        (results[idx].passed <=> TrimLower(line) = <<"y">>)

\* C8 witness: the answer " Y " to the final question of a check is recorded true.
C8_Witness ==
    /\ line = <<" ", "Y", " ">>
    /\ Recorded
    /\ results[idx].passed

\* C9: every check but the first starts after one more acknowledgment, the
\* acknowledgment is requested only when a recorded check is followed by
\* another one, never after the last check and never after a cancellation.
C9_AckBetweenChecks ==
    /\ acks = Len(calls) - 1
    /\ pc = "ack" =>
        /\ Len(calls) < N
        /\ Len(results) = Len(calls)
        /\ interrupt = "none"
    /\ interrupt # "none" => Exited

\* C9 witness: the third check is waiting for input, two acknowledgments were
\* given, and the second check ended by a caught error.
C9_Witness ==
    /\ pc = "prompt"
    /\ Len(calls) = 3
    /\ acks = 2
    /\ Len(results) = 2
    /\ ~results[2].passed

\* C10: the procedures invoked so far are a prefix of the check list (listed
\* order, each at most once), the names in the ResultSet are a prefix of the
\* check list no longer than the invoked ones, and a step only appends to the
\* ResultSet: no entry is overwritten.
C10_InOrderOnceNoOverwrite ==
    [][ /\ IsPrefix(calls, tests) /\ IsPrefix(calls', tests)
        /\ IsPrefix(Names(results), tests) /\ IsPrefix(Names(results'), tests)
        /\ Len(results') <= Len(calls')
        /\ IsPrefix(results, results')
      ]_vars

\* C10 witness: the run ended with all N checks invoked and recorded, the
\* first false and the second true.
C10_Witness ==
    /\ Exited
    /\ calls = tests
    /\ Names(results) = tests
    /\ ~results[1].passed
    /\ results[2].passed

====
